---- MODULE Spec2Model ----
(***************************************************************************)
(* Graph layout and spatial indexing pipeline of GitArena                  *)
(* (src/lib/graphAlgo.ts): topologicalSort, assignColumns, computeLayout,  *)
(* the Quadtree class, isAncestor and buildSpatialIndex.                   *)
(*                                                                         *)
(* The specifications share the variables below:                           *)
(*   SpecSort     - topologicalSort and isAncestor over commit lists       *)
(*   SpecLayout   - assignColumns and computeLayout over commit lists      *)
(*   SpecLanes    - the loop of assignColumns, commit by commit            *)
(*   SpecCalls    - one call of any of the four graph functions            *)
(*   SpecIndex    - computeLayout, buildSpatialIndex, then hit tests       *)
(*   SpecQuadtree - a Quadtree under insert, queryNearest and queryRect    *)
(*   SpecAncestor - the loop of isAncestor, iteration by iteration         *)
(***************************************************************************)
EXTENDS Integers, Sequences, FiniteSets, TLC

VARIABLES
  commits,   \* the CommitNode[] handed to the graph functions
  qt,        \* the Quadtree object: [root, maxItems, maxDepth]
  inserted,  \* history of the insert(item, x, y) calls made on qt
  layout,    \* the GraphLayout last returned by computeLayout
  call,      \* the last call made: a record with field op and the arguments
  ret        \* the value that call returned

vars == <<commits, qt, inserted, layout, call, ret>>

\* ------------------------------------------------------------------ bounds

\* longest commit list drawn as input
MaxCommits == 3
\* longest parent list of a drawn commit
MaxParents == 2
\* largest timestamp of a drawn commit when every order of timestamps is drawn
MaxTime == 3
\* longest commit list drawn for the spatial index (chains and fans only)
MaxLongCommits == 6
\* largest maxItems and maxDepth a Quadtree is constructed with
MaxItems == 2
MaxDepth == 2
\* most insert calls made on one Quadtree
MaxInserts == 3

\* ----------------------------------------------------------------- helpers

Range(s) == {s[i] : i \in DOMAIN s}

Max(a, b) == IF a >= b THEN a ELSE b

\* Array.prototype.indexOf: the 0-based index of the first element equal to v,
\* or -1
IndexOf(s, v) ==
  IF \E i \in DOMAIN s : s[i] = v
  THEN (CHOOSE i \in DOMAIN s : s[i] = v /\ \A j \in 1..(i - 1) : s[j] # v) - 1
  ELSE -1

\* A JavaScript Map: keys in insertion order, and the value of each key.
EmptyMap == [keys |-> <<>>, val |-> <<>>]

MapHas(m, k) == k \in Range(m.keys)

MapGet(m, k) == m.val[k]

\* m.get(k) ?? d
MapGetOr(m, k, d) == IF MapHas(m, k) THEN m.val[k] ELSE d

MapSet(m, k, v) ==
  IF MapHas(m, k)
  THEN [m EXCEPT !.val = [x \in DOMAIN m.val |-> IF x = k THEN v ELSE m.val[x]]]
  ELSE [keys |-> Append(m.keys, k),
        val |-> [x \in Range(m.keys) \cup {k} |-> IF x = k THEN v ELSE m.val[x]]]

MapDelete(m, k) ==
  [keys |-> SelectSeq(m.keys, LAMBDA x : x # k),
   val |-> [x \in Range(m.keys) \ {k} |-> m.val[x]]]

\* ------------------------------------------------------- topologicalSort

\* new Set(commits.map((c) => c.oid))
OidSet(cs) == {cs[i].oid : i \in DOMAIN cs}

\* TopoAddParent with the edge direction confused: the degree counted is the
\* parent's number of children, not the child's number of parents.
TopoAddParent_Reversed(st, oid, p, oidSet) ==
  IF p \notin oidSet THEN st
  ELSE [inDegree |-> MapSet(st.inDegree, p, MapGetOr(st.inDegree, p, 0) + 1),
        children |-> MapSet(st.children, p,
                            Append(MapGetOr(st.children, p, <<>>), oid))]

\* TopoAddParent without the test of oidSet: a parent outside the list is
\* counted in the in-degree like any other.
TopoAddParent_DanglingCounted(st, oid, p, oidSet) ==
  [inDegree |-> MapSet(st.inDegree, oid, MapGetOr(st.inDegree, oid, 0) + 1),
   children |-> MapSet(st.children, p,
                       Append(MapGetOr(st.children, p, <<>>), oid))]

\* One parent p of the commit oid in the build loop: a parent outside the set
\* is skipped, otherwise oid is pushed on children[p] and inDegree[oid] grows.
TopoAddParent(st, oid, p, oidSet) ==
  IF p \notin oidSet THEN st
  ELSE [inDegree |-> MapSet(st.inDegree, oid, MapGetOr(st.inDegree, oid, 0) + 1),
        children |-> MapSet(st.children, p,
                            Append(MapGetOr(st.children, p, <<>>), oid))]

RECURSIVE TopoAddParents(_, _, _, _, _)
TopoAddParents(st, oid, parents, j, oidSet) ==
  IF j > Len(parents) THEN st
  ELSE TopoAddParents(TopoAddParent(st, oid, parents[j], oidSet),
                      oid, parents, j + 1, oidSet)

\* The build loop over commits[i..]: inDegree gets a 0 entry for an oid seen
\* for the first time, then the parents are added.
RECURSIVE TopoBuild(_, _, _, _)
TopoBuild(st, cs, i, oidSet) ==
  IF i > Len(cs) THEN st
  ELSE LET c == cs[i]
           st0 == IF MapHas(st.inDegree, c.oid) THEN st
                  ELSE [st EXCEPT !.inDegree = MapSet(@, c.oid, 0)]
       IN TopoBuild(TopoAddParents(st0, c.oid, c.parents, 1, oidSet),
                    cs, i + 1, oidSet)

\* The queue is seeded with the keys of inDegree of degree 0, in Map order.
TopoSeed(inDegree) == SelectSeq(inDegree.keys, LAMBDA o : inDegree.val[o] = 0)

\* One child of the dequeued node: its degree drops by one and it is enqueued
\* when the new degree is exactly 0.
TopoRelease(st, child) ==
  LET newDeg == MapGetOr(st.inDegree, child, 1) - 1
  IN [inDegree |-> MapSet(st.inDegree, child, newDeg),
      queue |-> IF newDeg = 0 THEN Append(st.queue, child) ELSE st.queue]

RECURSIVE TopoReleaseAll(_, _, _)
TopoReleaseAll(st, kids, j) ==
  IF j > Len(kids) THEN st
  ELSE TopoReleaseAll(TopoRelease(st, kids[j]), kids, j + 1)

\* while (queueIdx < queue.length): queueIdx is 0-based, queue[queueIdx] is
\* the element at position queueIdx + 1 here.
RECURSIVE TopoDrain(_, _, _, _)
TopoDrain(st, queueIdx, sorted, children) ==
  IF queueIdx >= Len(st.queue) THEN sorted
  ELSE LET node == st.queue[queueIdx + 1]
       IN TopoDrain(TopoReleaseAll(st, MapGetOr(children, node, <<>>), 1),
                    queueIdx + 1, Append(sorted, node), children)

\* TopoRemainder with the loop lost: undischarged commits are not appended.
TopoRemainder_Dropped(sorted, cs, i, sortedSet) == sorted

\* TopoRemainder walking the commit list from its end.
RECURSIVE TopoRemainder_Reversed(_, _, _, _)
TopoRemainder_Reversed(sorted, cs, i, sortedSet) ==
  IF i > Len(cs) THEN sorted
  ELSE LET c == cs[Len(cs) + 1 - i]
       IN TopoRemainder_Reversed(IF c.oid \notin sortedSet
                                 THEN Append(sorted, c.oid) ELSE sorted,
                                 cs, i + 1, sortedSet)

\* The remainder loop: sortedSet is taken once, before the loop.
RECURSIVE TopoRemainder(_, _, _, _)
TopoRemainder(sorted, cs, i, sortedSet) ==
  IF i > Len(cs) THEN sorted
  ELSE TopoRemainder(IF cs[i].oid \notin sortedSet
                     THEN Append(sorted, cs[i].oid) ELSE sorted,
                     cs, i + 1, sortedSet)

topologicalSort(cs) ==
  LET built == TopoBuild([inDegree |-> EmptyMap, children |-> EmptyMap],
                         cs, 1, OidSet(cs))
      drained == TopoDrain([inDegree |-> built.inDegree,
                            queue |-> TopoSeed(built.inDegree)],
                           0, <<>>, built.children)
  IN TopoRemainder(drained, cs, 1, Range(drained))

\* ------------------------------------------------------------ isAncestor

\* for (const c of commits) commitMap.set(c.oid, c)
RECURSIVE CommitMap(_, _, _)
CommitMap(m, cs, i) ==
  IF i > Len(cs) THEN m ELSE CommitMap(MapSet(m, cs[i].oid, cs[i]), cs, i + 1)

\* AncPush following the first parent only.
AncPush_FirstParentOnly(queue, parents, j, visited) ==
  IF Len(parents) >= 1 /\ parents[1] \notin visited
  THEN Append(queue, parents[1]) ELSE queue

\* for (const p of node.parents) if (!visited.has(p)) queue.push(p)
RECURSIVE AncPush(_, _, _, _)
AncPush(queue, parents, j, visited) ==
  IF j > Len(parents) THEN queue
  ELSE AncPush(IF parents[j] \notin visited THEN Append(queue, parents[j])
               ELSE queue,
               parents, j + 1, visited)

\* The BFS loop: queue.shift(), the ancestor test, the visited test, then the
\* parents of the commit found in commitMap (none when there is no commit).
RECURSIVE AncLoop(_, _, _, _)
AncLoop(queue, visited, commitMap, ancestor) ==
  IF Len(queue) = 0 THEN FALSE
  ELSE LET current == Head(queue)
           rest == Tail(queue)
       IN IF current = ancestor THEN TRUE
          ELSE IF current \in visited
          THEN AncLoop(rest, visited, commitMap, ancestor)
          ELSE LET visited1 == visited \cup {current}
               IN AncLoop(IF MapHas(commitMap, current)
                          THEN AncPush(rest, MapGet(commitMap, current).parents,
                                       1, visited1)
                          ELSE rest,
                          visited1, commitMap, ancestor)

isAncestor(cs, ancestor, descendant) ==
  AncLoop(<<descendant>>, {}, CommitMap(EmptyMap, cs, 1), ancestor)

\* AncStep without visited.add(current): no identifier is ever marked.
AncStep_NotMarked(st, commitMap) ==
  LET current == Head(st.queue)
      rest == Tail(st.queue)
  IN IF current \in st.visited THEN [queue |-> rest, visited |-> st.visited]
     ELSE [queue |-> IF MapHas(commitMap, current)
                     THEN AncPush(rest, MapGet(commitMap, current).parents,
                                  1, st.visited)
                     ELSE rest,
           visited |-> st.visited]

\* One iteration of the BFS loop that does not return: the queue and the
\* visited set after the head of the queue, which is not the ancestor, was
\* shifted and, unless visited already, marked and expanded.
AncStep(st, commitMap) ==
  LET current == Head(st.queue)
      rest == Tail(st.queue)
  IN IF current \in st.visited THEN [queue |-> rest, visited |-> st.visited]
     ELSE LET visited1 == st.visited \cup {current}
          IN [queue |-> IF MapHas(commitMap, current)
                        THEN AncPush(rest, MapGet(commitMap, current).parents,
                                     1, visited1)
                        ELSE rest,
              visited |-> visited1]

\* --------------------------------------------------------- assignColumns

\* A free slot of activeLanes (null in the source).
Null == "null"

\* SortedInsert for a sort that is not stable: c goes before the elements of
\* equal timestamp.
SortedInsert_BeforeEqual(sorted, c) ==
  LET k == Cardinality({i \in DOMAIN sorted : sorted[i].timestamp > c.timestamp})
  IN SubSeq(sorted, 1, k) \o <<c>> \o SubSeq(sorted, k + 1, Len(sorted))

\* Where c goes in a list already sorted by timestamp descending: after every
\* element whose timestamp is >= c's (Array.prototype.sort is stable).
SortedInsert(sorted, c) ==
  LET k == Cardinality({i \in DOMAIN sorted : sorted[i].timestamp >= c.timestamp})
  IN SubSeq(sorted, 1, k) \o <<c>> \o SubSeq(sorted, k + 1, Len(sorted))

\* [...commits].sort((a, b) => b.timestamp - a.timestamp)
RECURSIVE SortByTimeDesc(_)
SortByTimeDesc(cs) ==
  IF Len(cs) = 0 THEN <<>>
  ELSE SortedInsert(SortByTimeDesc(SubSeq(cs, 1, Len(cs) - 1)), cs[Len(cs)])

\* SortedCopy without the spread: sort reorders the input array itself.
SortedCopy_InPlace(cs) ==
  [sorted |-> SortByTimeDesc(cs), input |-> SortByTimeDesc(cs)]

\* [...commits].sort(...): the spread makes a new array of the same commit
\* objects and sort reorders that array in place.  sorted is the new array,
\* input the array passed in as it is afterwards.
SortedCopy(cs) == [sorted |-> SortByTimeDesc(cs), input |-> cs]

\* activeLanes.indexOf(null), or a lane appended when none is free:
\* the lane index and the lane array afterwards.
FirstFreeLane(lanes) ==
  LET idx == IndexOf(lanes, Null)
  IN IF idx = -1 THEN [lane |-> Len(lanes), lanes |-> Append(lanes, Null)]
     ELSE [lane |-> idx, lanes |-> lanes]

\* ReserveParent without the test of oidSet: a lane is reserved for a parent
\* that is no commit of the list.
ReserveParent_DanglingReserved(st, col, i, parent, oidSet) ==
  IF MapHas(st.columns, parent) \/ MapHas(st.reservations, parent) THEN st
  ELSE LET pick == IF i = 0 /\ st.activeLanes[col + 1] = Null
                   THEN [lane |-> col, lanes |-> st.activeLanes]
                   ELSE FirstFreeLane(st.activeLanes)
       IN [st EXCEPT !.activeLanes = [pick.lanes EXCEPT ![pick.lane + 1] = parent],
                     !.reservations = MapSet(@, parent, pick.lane)]

\* ReserveParent with the first parent treated like the others: it gets the
\* first free lane, not the lane of its child.
ReserveParent_FirstFree(st, col, i, parent, oidSet) ==
  IF parent \notin oidSet THEN st
  ELSE IF MapHas(st.columns, parent) \/ MapHas(st.reservations, parent) THEN st
  ELSE LET pick == FirstFreeLane(st.activeLanes)
       IN [st EXCEPT !.activeLanes = [pick.lanes EXCEPT ![pick.lane + 1] = parent],
                     !.reservations = MapSet(@, parent, pick.lane)]

\* ReserveParent with the lane left unmarked: the reservation is recorded but
\* the slot of activeLanes stays free.
ReserveParent_LaneNotMarked(st, col, i, parent, oidSet) ==
  IF parent \notin oidSet THEN st
  ELSE IF MapHas(st.columns, parent) \/ MapHas(st.reservations, parent) THEN st
  ELSE LET pick == IF i = 0 /\ st.activeLanes[col + 1] = Null
                   THEN [lane |-> col, lanes |-> st.activeLanes]
                   ELSE FirstFreeLane(st.activeLanes)
       IN [st EXCEPT !.activeLanes = pick.lanes,
                     !.reservations = MapSet(@, parent, pick.lane)]

\* The parent at 0-based index i of the commit in lane col: skipped when it is
\* outside the set, already has a column or already holds a reservation.
ReserveParent(st, col, i, parent, oidSet) ==
  IF parent \notin oidSet THEN st
  ELSE IF MapHas(st.columns, parent) \/ MapHas(st.reservations, parent) THEN st
  ELSE LET pick == IF i = 0 /\ st.activeLanes[col + 1] = Null
                   THEN [lane |-> col, lanes |-> st.activeLanes]
                   ELSE FirstFreeLane(st.activeLanes)
       IN [st EXCEPT !.activeLanes = [pick.lanes EXCEPT ![pick.lane + 1] = parent],
                     !.reservations = MapSet(@, parent, pick.lane)]

RECURSIVE ReserveParents(_, _, _, _, _)
ReserveParents(st, col, parents, i, oidSet) ==
  IF i >= Len(parents) THEN st
  ELSE ReserveParents(ReserveParent(st, col, i, parents[i + 1], oidSet),
                      col, parents, i + 1, oidSet)

\* AssignCommit with the reservation kept when its commit arrives: the lane is
\* freed, the entry of reservations stays.
AssignCommit_ReservationKept(st, commit, oidSet) ==
  LET reserved == MapGetOr(st.reservations, commit.oid, -1)
      st1 == IF reserved # -1
             THEN [st EXCEPT !.activeLanes[reserved + 1] = Null]
             ELSE st
      pick == IF reserved = -1 THEN FirstFreeLane(st1.activeLanes)
              ELSE [lane |-> reserved, lanes |-> st1.activeLanes]
      st2 == [st1 EXCEPT !.activeLanes = pick.lanes,
                         !.columns = MapSet(@, commit.oid, pick.lane)]
  IN ReserveParents(st2, pick.lane, commit.parents, 0, oidSet)

\* AssignCommit with the reserved lane not freed when its commit arrives.
AssignCommit_LaneNotFreed(st, commit, oidSet) ==
  LET reserved == MapGetOr(st.reservations, commit.oid, -1)
      st1 == IF reserved # -1
             THEN [st EXCEPT !.reservations = MapDelete(@, commit.oid)]
             ELSE st
      pick == IF reserved = -1 THEN FirstFreeLane(st1.activeLanes)
              ELSE [lane |-> reserved, lanes |-> st1.activeLanes]
      st2 == [st1 EXCEPT !.activeLanes = pick.lanes,
                         !.columns = MapSet(@, commit.oid, pick.lane)]
  IN ReserveParents(st2, pick.lane, commit.parents, 0, oidSet)

\* One iteration of the loop over the sorted commits.
AssignCommit(st, commit, oidSet) ==
  LET reserved == MapGetOr(st.reservations, commit.oid, -1)
      st1 == IF reserved # -1
             THEN [st EXCEPT !.activeLanes[reserved + 1] = Null,
                             !.reservations = MapDelete(@, commit.oid)]
             ELSE st
      pick == IF reserved = -1 THEN FirstFreeLane(st1.activeLanes)
              ELSE [lane |-> reserved, lanes |-> st1.activeLanes]
      st2 == [st1 EXCEPT !.activeLanes = pick.lanes,
                         !.columns = MapSet(@, commit.oid, pick.lane)]
  IN ReserveParents(st2, pick.lane, commit.parents, 0, oidSet)

RECURSIVE AssignLoop(_, _, _, _)
AssignLoop(st, sorted, k, oidSet) ==
  IF k > Len(sorted) THEN st
  ELSE AssignLoop(AssignCommit(st, sorted[k], oidSet), sorted, k + 1, oidSet)

assignColumns(cs) ==
  AssignLoop([columns |-> EmptyMap, activeLanes |-> <<>>, reservations |-> EmptyMap],
             SortedCopy(cs).sorted, 1, OidSet(cs)).columns

\* --------------------------------------------------------- computeLayout

colSpacing == 80
rowSpacing == 70
padding == 60
\* the floor of width and height: Math.max(width, 200), Math.max(height, 200)
minSize == 200

branchColors ==
  <<"#6366f1", "#22c55e", "#f59e0b", "#ec4899",
    "#06b6d4", "#f97316", "#a855f7", "#14b8a6">>

\* The LayoutNode of the commit at 0-based row `row` of the sorted list.
LayoutNodeOf(commit, row, columns) ==
  LET col == MapGetOr(columns, commit.oid, 0)
      colorIdx == col % Len(branchColors)
  IN [oid |-> commit.oid,
      x |-> padding + col * colSpacing,
      y |-> padding + row * rowSpacing,
      col |-> col,
      row |-> row,
      color |-> branchColors[colorIdx + 1],
      parents |-> commit.parents]

\* LayoutNodes leaving out the commits none of whose parents resolves.
LayoutNodes_OrphansSkipped(sorted, columns) ==
  LET oidSet == {sorted[i].oid : i \in DOMAIN sorted}
      kept == SelectSeq(sorted, LAMBDA c : Len(c.parents) = 0
                                           \/ Range(c.parents) \cap oidSet # {})
  IN [i \in 1..Len(kept) |-> LayoutNodeOf(kept[i], i - 1, columns)]

\* sorted.map((commit, row) => ...)
LayoutNodes(sorted, columns) ==
  [i \in 1..Len(sorted) |-> LayoutNodeOf(sorted[i], i - 1, columns)]

\* for (const n of nodes) nodeMap.set(n.oid, n)
RECURSIVE NodeMap(_, _, _)
NodeMap(m, nodes, i) ==
  IF i > Len(nodes) THEN m ELSE NodeMap(MapSet(m, nodes[i].oid, nodes[i]), nodes, i + 1)

\* EdgePoints drawing every edge as a straight line.
EdgePoints_AlwaysStraight(node, parent) ==
  <<[x |-> node.x, y |-> node.y], [x |-> parent.x, y |-> parent.y]>>

\* The control points of the edge from node to parent.
EdgePoints(node, parent) ==
  IF node.col = parent.col
  THEN <<[x |-> node.x, y |-> node.y], [x |-> parent.x, y |-> parent.y]>>
  ELSE LET midY == (node.y + parent.y) \div 2
       IN <<[x |-> node.x, y |-> node.y], [x |-> node.x, y |-> midY],
            [x |-> parent.x, y |-> midY], [x |-> parent.x, y |-> parent.y]>>

\* NodeEdges drawing an edge to the first parent only.
NodeEdges_FirstParentOnly(edges, node, j, nodeMap) ==
  IF Len(node.parents) = 0 \/ ~MapHas(nodeMap, node.parents[1]) THEN edges
  ELSE Append(edges,
              [from |-> node.oid, to |-> node.parents[1],
               color |-> node.color,
               points |-> EdgePoints(node, MapGet(nodeMap, node.parents[1]))])

\* for (const parentOid of node.parents): an edge for each entry found in
\* nodeMap, none for the others.
RECURSIVE NodeEdges(_, _, _, _)
NodeEdges(edges, node, j, nodeMap) ==
  IF j > Len(node.parents) THEN edges
  ELSE LET parentOid == node.parents[j]
       IN NodeEdges(IF MapHas(nodeMap, parentOid)
                    THEN Append(edges,
                                [from |-> node.oid, to |-> parentOid,
                                 color |-> node.color,
                                 points |-> EdgePoints(node, MapGet(nodeMap, parentOid))])
                    ELSE edges,
                    node, j + 1, nodeMap)

RECURSIVE LayoutEdges(_, _, _, _)
LayoutEdges(edges, nodes, i, nodeMap) ==
  IF i > Len(nodes) THEN edges
  ELSE LayoutEdges(NodeEdges(edges, nodes[i], 1, nodeMap), nodes, i + 1, nodeMap)

\* MaxCol taking the largest row for the largest column.
MaxCol_OfRows(nodes, i) == Len(nodes) - 1

\* Math.max(...nodes.map((n) => n.col), 0)
RECURSIVE MaxCol(_, _)
MaxCol(nodes, i) ==
  IF i > Len(nodes) THEN 0 ELSE Max(nodes[i].col, MaxCol(nodes, i + 1))

\* The return value for commits.length === 0.
EmptyLayout == [nodes |-> <<>>, edges |-> <<>>, width |-> 0, height |-> 0]

computeLayout(cs) ==
  IF Len(cs) = 0 THEN EmptyLayout
  ELSE LET columns == assignColumns(cs)
           sorted == SortedCopy(cs).sorted
           nodes == LayoutNodes(sorted, columns)
           edges == LayoutEdges(<<>>, nodes, 1, NodeMap(EmptyMap, nodes, 1))
           width == padding * 2 + MaxCol(nodes, 1) * colSpacing
           height == padding * 2 + (Len(nodes) - 1) * rowSpacing
       IN [nodes |-> nodes, edges |-> edges,
           width |-> Max(width, minSize), height |-> Max(height, minSize)]

\* -------------------------------------------------------------- Quadtree

\* A QuadtreeNode: children is <<>> for null, or the four quadrants.
QNode(bounds) == [bounds |-> bounds, items |-> <<>>, children |-> <<>>]

\* new Quadtree(bounds, maxItems, maxDepth)
NewQuadtree(bounds, maxItems, maxDepth) ==
  [root |-> QNode(bounds), maxItems |-> maxItems, maxDepth |-> maxDepth]

inBounds(bounds, x, y) ==
  /\ x >= bounds.x
  /\ x <= bounds.x + bounds.width
  /\ y >= bounds.y
  /\ y <= bounds.y + bounds.height

\* boundsOverlap taking rectangles that only touch for disjoint.
boundsOverlap_Strict(a, b) ==
  ~ \/ a.x >= b.x + b.width
    \/ a.x + a.width <= b.x
    \/ a.y >= b.y + b.height
    \/ a.y + a.height <= b.y

boundsOverlap(a, b) ==
  ~ \/ a.x > b.x + b.width
    \/ a.x + a.width < b.x
    \/ a.y > b.y + b.height
    \/ a.y + a.height < b.y

\* The 1-based position of the first child whose bounds hold (x, y), 0 if none.
FirstChildHolding(children, x, y) ==
  IF \E k \in DOMAIN children : inBounds(children[k].bounds, x, y)
  THEN CHOOSE k \in DOMAIN children :
         /\ inBounds(children[k].bounds, x, y)
         /\ \A j \in 1..(k - 1) : ~inBounds(children[j].bounds, x, y)
  ELSE 0

\* Redistribute placing an entry only when exactly one child holds it: an
\* entry on a boundary shared by two children stays with the node.
RECURSIVE Redistribute_UniqueChildOnly(_, _, _)
Redistribute_UniqueChildOnly(node, oldItems, i) ==
  IF i > Len(oldItems) THEN node
  ELSE LET entry == oldItems[i]
           holding == {k \in DOMAIN node.children :
                         inBounds(node.children[k].bounds, entry.x, entry.y)}
       IN Redistribute_UniqueChildOnly(
            IF Cardinality(holding) # 1
            THEN [node EXCEPT !.items = Append(@, entry)]
            ELSE [node EXCEPT
                    !.children[CHOOSE k \in holding : TRUE].items = Append(@, entry)],
            oldItems, i + 1)

\* Redistribute with the loop lost: the old entries of the node are dropped.
Redistribute_Dropped(node, oldItems, i) == node

\* The redistribution loop of subdivide: each old entry goes to the first
\* child holding it, or back to the node's own items when no child does.
RECURSIVE Redistribute(_, _, _)
Redistribute(node, oldItems, i) ==
  IF i > Len(oldItems) THEN node
  ELSE LET entry == oldItems[i]
           k == FirstChildHolding(node.children, entry.x, entry.y)
       IN Redistribute(IF k = 0
                       THEN [node EXCEPT !.items = Append(@, entry)]
                       ELSE [node EXCEPT !.children[k].items = Append(@, entry)],
                       oldItems, i + 1)

\* subdivide without node.items = []: the old entries stay with the node and
\* are pushed to the children as well.
subdivide_ItemsNotCleared(node) ==
  LET x == node.bounds.x
      y == node.bounds.y
      hw == node.bounds.width \div 2
      hh == node.bounds.height \div 2
      split == [node EXCEPT
                 !.children =
                   <<QNode([x |-> x, y |-> y, width |-> hw, height |-> hh]),
                     QNode([x |-> x + hw, y |-> y, width |-> hw, height |-> hh]),
                     QNode([x |-> x, y |-> y + hh, width |-> hw, height |-> hh]),
                     QNode([x |-> x + hw, y |-> y + hh, width |-> hw, height |-> hh])>>]
  IN [Redistribute([split EXCEPT !.items = <<>>], node.items, 1)
        EXCEPT !.items = node.items \o @]

\* width / 2 and height / 2 are exact on every bounds drawn here (see
\* HalvingExact), so the integer quotient is the source's quotient.
subdivide(node) ==
  LET x == node.bounds.x
      y == node.bounds.y
      hw == node.bounds.width \div 2
      hh == node.bounds.height \div 2
      split == [node EXCEPT
                 !.children =
                   <<QNode([x |-> x, y |-> y, width |-> hw, height |-> hh]),
                     QNode([x |-> x + hw, y |-> y, width |-> hw, height |-> hh]),
                     QNode([x |-> x, y |-> y + hh, width |-> hw, height |-> hh]),
                     QNode([x |-> x + hw, y |-> y + hh, width |-> hw, height |-> hh])>>,
                 !.items = <<>>]
  IN Redistribute(split, node.items, 1)

\* insertInto with the depth test one level early: a leaf one level above
\* maxDepth is not subdivided.
RECURSIVE insertInto_DepthOffByOne(_, _, _, _, _)
insertInto_DepthOffByOne(node, entry, depth, maxItems, maxDepth) ==
  IF ~inBounds(node.bounds, entry.x, entry.y) THEN node
  ELSE IF node.children = <<>>
  THEN LET pushed == [node EXCEPT !.items = Append(@, entry)]
       IN IF Len(pushed.items) > maxItems /\ depth + 1 < maxDepth
          THEN subdivide(pushed) ELSE pushed
  ELSE LET k == FirstChildHolding(node.children, entry.x, entry.y)
       IN IF k = 0 THEN [node EXCEPT !.items = Append(@, entry)]
          ELSE [node EXCEPT !.children[k] =
                  insertInto_DepthOffByOne(@, entry, depth + 1, maxItems, maxDepth)]

\* insertInto without the test of the depth: a leaf over maxItems is
\* subdivided at any depth.
RECURSIVE insertInto_NoDepthLimit(_, _, _, _, _)
insertInto_NoDepthLimit(node, entry, depth, maxItems, maxDepth) ==
  IF ~inBounds(node.bounds, entry.x, entry.y) THEN node
  ELSE IF node.children = <<>>
  THEN LET pushed == [node EXCEPT !.items = Append(@, entry)]
       IN IF Len(pushed.items) > maxItems
          THEN subdivide(pushed) ELSE pushed
  ELSE LET k == FirstChildHolding(node.children, entry.x, entry.y)
       IN IF k = 0 THEN [node EXCEPT !.items = Append(@, entry)]
          ELSE [node EXCEPT !.children[k] =
                  insertInto_NoDepthLimit(@, entry, depth + 1, maxItems, maxDepth)]

\* insertInto without the test of the node's bounds.
RECURSIVE insertInto_NoBoundsCheck(_, _, _, _, _)
insertInto_NoBoundsCheck(node, entry, depth, maxItems, maxDepth) ==
  IF node.children = <<>>
  THEN LET pushed == [node EXCEPT !.items = Append(@, entry)]
       IN IF Len(pushed.items) > maxItems /\ depth < maxDepth
          THEN subdivide(pushed) ELSE pushed
  ELSE LET k == FirstChildHolding(node.children, entry.x, entry.y)
       IN IF k = 0 THEN [node EXCEPT !.items = Append(@, entry)]
          ELSE [node EXCEPT !.children[k] =
                  insertInto_NoBoundsCheck(@, entry, depth + 1, maxItems, maxDepth)]

\* An entry outside the node's bounds is dropped; a leaf takes the entry and
\* subdivides when over maxItems above maxDepth; an inner node hands it to the
\* first child holding it, or keeps it when no child does.
RECURSIVE insertInto(_, _, _, _, _)
insertInto(node, entry, depth, maxItems, maxDepth) ==
  IF ~inBounds(node.bounds, entry.x, entry.y) THEN node
  ELSE IF node.children = <<>>
  THEN LET pushed == [node EXCEPT !.items = Append(@, entry)]
       IN IF Len(pushed.items) > maxItems /\ depth < maxDepth
          THEN subdivide(pushed) ELSE pushed
  ELSE LET k == FirstChildHolding(node.children, entry.x, entry.y)
       IN IF k = 0 THEN [node EXCEPT !.items = Append(@, entry)]
          ELSE [node EXCEPT !.children[k] =
                  insertInto(@, entry, depth + 1, maxItems, maxDepth)]

\* insert(item, x, y)
insert(tree, item, x, y) ==
  [tree EXCEPT !.root = insertInto(@, [item |-> item, x |-> x, y |-> y], 0,
                                   tree.maxItems, tree.maxDepth)]

\* The entries queryNode hands to its callback, in call order: none when the
\* node's bounds miss the search square, else the node's items, then its
\* children's in order.
RECURSIVE queryNode(_, _, _, _)
RECURSIVE QueryChildren(_, _, _, _, _)
\* queryNode with a search square of side radius instead of radius * 2.
queryNode_HalfSquare(node, x, y, radius) ==
  LET searchBounds == [x |-> x - radius, y |-> y - radius,
                       width |-> radius, height |-> radius]
  IN IF ~boundsOverlap(node.bounds, searchBounds) THEN <<>>
     ELSE node.items \o QueryChildren(node.children, 1, x, y, radius)

queryNode(node, x, y, radius) ==
  LET searchBounds == [x |-> x - radius, y |-> y - radius,
                       width |-> radius * 2, height |-> radius * 2]
  IN IF ~boundsOverlap(node.bounds, searchBounds) THEN <<>>
     ELSE node.items \o QueryChildren(node.children, 1, x, y, radius)
QueryChildren(children, k, x, y, radius) ==
  IF k > Len(children) THEN <<>>
  ELSE queryNode(children[k], x, y, radius)
         \o QueryChildren(children, k + 1, x, y, radius)

\* The result of queryNearest: <<>> for null, <<item>> for an item.
None == <<>>
Some(item) == <<item>>

\* The callback of queryNearest run over the visited entries: best and
\* bestDist change only on a strictly smaller squared distance.
RECURSIVE NearestScan(_, _, _, _, _)
NearestScan(st, visited, i, x, y) ==
  IF i > Len(visited) THEN st
  ELSE LET e == visited[i]
           d == (e.x - x) * (e.x - x) + (e.y - y) * (e.y - y)
       IN NearestScan(IF d < st.bestDist
                      THEN [best |-> Some(e.item), bestDist |-> d] ELSE st,
                      visited, i + 1, x, y)

queryNearest(tree, x, y, radius) ==
  NearestScan([best |-> None, bestDist |-> radius * radius],
              queryNode(tree.root, x, y, radius), 1, x, y).best

\* The items of node.items inside rect, in order.
RectFilter(items, rect) ==
  LET hits == SelectSeq(items, LAMBDA e : /\ e.x >= rect.x
                                          /\ e.x <= rect.x + rect.width
                                          /\ e.y >= rect.y
                                          /\ e.y <= rect.y + rect.height)
  IN [i \in 1..Len(hits) |-> hits[i].item]

RECURSIVE queryRectNode(_, _)
RECURSIVE QueryRectChildren(_, _, _)
queryRectNode(node, rect) ==
  IF ~boundsOverlap(node.bounds, rect) THEN <<>>
  ELSE RectFilter(node.items, rect) \o QueryRectChildren(node.children, 1, rect)
QueryRectChildren(children, k, rect) ==
  IF k > Len(children) THEN <<>>
  ELSE queryRectNode(children[k], rect) \o QueryRectChildren(children, k + 1, rect)

queryRect(tree, rect) == queryRectNode(tree.root, rect)

\* ----------------------------------------------------- buildSpatialIndex

\* the margin added to the layout's width and height
indexMargin == 200
indexMaxItems == 4
indexMaxDepth == 10

RECURSIVE InsertNodes(_, _, _)
InsertNodes(tree, nodes, i) ==
  IF i > Len(nodes) THEN tree
  ELSE InsertNodes(insert(tree, nodes[i], nodes[i].x, nodes[i].y), nodes, i + 1)

buildSpatialIndex(lay) ==
  InsertNodes(NewQuadtree([x |-> 0, y |-> 0,
                           width |-> lay.width + indexMargin,
                           height |-> lay.height + indexMargin],
                          indexMaxItems, indexMaxDepth),
              lay.nodes, 1)

\* ---------------------------------------------------------------- inputs

\* The oids of the drawn commits, and an identifier no commit ever has.
OidPool == <<"a", "b", "c", "d", "e", "f", "g", "h">>
Oids == {OidPool[i] : i \in 1..MaxCommits}
Dangling == "z"
Ids == Oids \cup {Dangling}

\* Parent lists: any identifiers, resolving or not, repeated or not.
ParentLists == UNION {[1..n -> Ids] : n \in 0..MaxParents}
ShortParentLists == UNION {[1..n -> Ids] : n \in 0..1}

\* Timestamp vectors up to order: the values used are exactly 1..k.
TimeVectors(n) ==
  {t \in [1..n -> 1..MaxTime] : \E k \in 0..MaxTime : Range(t) = 1..k}

\* Timestamps growing with the position, shrinking with it, or all equal.
SimpleTimeVectors(n) ==
  {[i \in 1..n |-> i], [i \in 1..n |-> n + 1 - i], [i \in 1..n |-> 1]}

MakeCommits(n, os, ps, t) ==
  [i \in 1..n |-> [oid |-> os[i], parents |-> ps[i], timestamp |-> t[i]]]

UniqueOids(cs) == \A i, j \in DOMAIN cs : cs[i].oid = cs[j].oid => i = j

NoTree == NewQuadtree([x |-> 0, y |-> 0, width |-> 0, height |-> 0], 0, 0)
NoCall == [op |-> "none"]

\* ---------------------------------------------------------------- SpecSort

\* Commit lists with unique oids (the i-th commit is named OidPool[i]) and any
\* parent lists; timestamps play no part in topologicalSort and isAncestor.
\* One call is made on each drawn list.
InitSort ==
  /\ \E n \in 0..MaxCommits : \E ps \in [1..n -> ParentLists] :
       commits = MakeCommits(n, OidPool, ps, [i \in 1..n |-> 1])
  /\ qt = NoTree
  /\ inserted = <<>>
  /\ layout = EmptyLayout
  /\ call = NoCall
  /\ ret = <<>>

CallTopologicalSort ==
  /\ call = NoCall
  /\ call' = [op |-> "topologicalSort"]
  /\ ret' = topologicalSort(commits)
  /\ UNCHANGED <<commits, qt, inserted, layout>>

CallIsAncestor(ancestor, descendant) ==
  /\ call = NoCall
  /\ call' = [op |-> "isAncestor", ancestor |-> ancestor, descendant |-> descendant]
  /\ ret' = isAncestor(commits, ancestor, descendant)
  /\ UNCHANGED <<commits, qt, inserted, layout>>

NextSort ==
  \/ CallTopologicalSort
  \/ \E a, d \in Ids : CallIsAncestor(a, d)

SpecSort == InitSort /\ [][NextSort]_vars

\* ------------------------------------------------------------ SpecAncestor

\* Commit lists with unique oids: the first commit has any parent list (a
\* merge, a parent named twice), the others at most one parent; cycles,
\* self-loops and missing parents included.
InitAncestor ==
  /\ \E n \in 0..MaxCommits :
       \E ps \in {q \in [1..n -> ParentLists] :
                     \A i \in 2..n : q[i] \in ShortParentLists} :
         commits = MakeCommits(n, OidPool, ps, [i \in 1..n |-> 1])
  /\ qt = NoTree
  /\ inserted = <<>>
  /\ layout = EmptyLayout
  /\ call = NoCall
  /\ ret = <<>>

\* isAncestor up to its loop: the queue holds the descendant, nothing is
\* visited.  ret holds the queue and the visited set while the loop runs, and
\* the value returned, in the field value, once it has returned.
BeginIsAncestor(ancestor, descendant) ==
  /\ call = NoCall
  /\ call' = [op |-> "isAncestor.loop", ancestor |-> ancestor,
               descendant |-> descendant]
  /\ ret' = [queue |-> <<descendant>>, visited |-> {}]
  /\ UNCHANGED <<commits, qt, inserted, layout>>

\* An iteration that shifts an identifier other than the ancestor.
StepIsAncestor ==
  /\ call.op = "isAncestor.loop"
  /\ Len(ret.queue) > 0
  /\ Head(ret.queue) # call.ancestor
  /\ ret' = AncStep(ret, CommitMap(EmptyMap, commits, 1))
  /\ UNCHANGED <<commits, qt, inserted, layout, call>>

\* if (current === ancestor) return true
ReturnTrueIsAncestor ==
  /\ call.op = "isAncestor.loop"
  /\ Len(ret.queue) > 0
  /\ Head(ret.queue) = call.ancestor
  /\ call' = [call EXCEPT !.op = "isAncestor.return"]
  /\ ret' = [value |-> TRUE]
  /\ UNCHANGED <<commits, qt, inserted, layout>>

\* The queue is empty: return false
ReturnFalseIsAncestor ==
  /\ call.op = "isAncestor.loop"
  /\ Len(ret.queue) = 0
  /\ call' = [call EXCEPT !.op = "isAncestor.return"]
  /\ ret' = [value |-> FALSE]
  /\ UNCHANGED <<commits, qt, inserted, layout>>

NextAncestor ==
  \/ \E a, d \in Ids : BeginIsAncestor(a, d)
  \/ StepIsAncestor
  \/ ReturnTrueIsAncestor
  \/ ReturnFalseIsAncestor

\* A call that was started runs on (the loop is synchronous code), hence the
\* weak fairness of the steps.
SpecAncestor == InitAncestor /\ [][NextAncestor]_vars /\ WF_vars(NextAncestor)

\* The loop run step by step returns what isAncestor returns.
AncestorLoopAgrees ==
  call.op = "isAncestor.return" =>
     ret.value = isAncestor(commits, call.ancestor, call.descendant)

\* -------------------------------------------------------------- SpecLayout

\* Commit lists with unique oids, any parent lists and any order of timestamps,
\* and commit lists in which an oid occurs more than once (parent lists of
\* length at most 1, timestamps growing, shrinking or equal).  One call of
\* assignColumns or computeLayout is made on each drawn list.
InitLayout ==
  /\ \/ \E n \in 0..MaxCommits : \E ps \in [1..n -> ParentLists] :
          \E t \in TimeVectors(n) : commits = MakeCommits(n, OidPool, ps, t)
     \/ \E n \in 2..MaxCommits : \E os \in [1..n -> Oids] :
          \E ps \in [1..n -> ShortParentLists] : \E t \in SimpleTimeVectors(n) :
            /\ \E i, j \in 1..n : i # j /\ os[i] = os[j]
            /\ commits = MakeCommits(n, os, ps, t)
  /\ qt = NoTree
  /\ inserted = <<>>
  /\ layout = EmptyLayout
  /\ call = NoCall
  /\ ret = <<>>

CallAssignColumns ==
  /\ call = NoCall
  /\ call' = [op |-> "assignColumns"]
  /\ ret' = assignColumns(commits)
  /\ commits' = SortedCopy(commits).input
  /\ UNCHANGED <<qt, inserted, layout>>

\* setCommits of the store: the layout of the commit list is computed and kept.
CallComputeLayout ==
  /\ call = NoCall
  /\ call' = [op |-> "computeLayout"]
  /\ ret' = computeLayout(commits)
  /\ layout' = ret'
  /\ commits' = SortedCopy(commits).input
  /\ UNCHANGED <<qt, inserted>>

NextLayout ==
  \/ CallAssignColumns
  \/ CallComputeLayout

SpecLayout == InitLayout /\ [][NextLayout]_vars

\* --------------------------------------------------------------- SpecIndex

\* Chains and fans: the i-th commit has no parent, the commit before it or the
\* first commit as parent.
LongParentLists(i) ==
  {<<>>} \cup (IF i > 1 THEN {<<OidPool[i - 1]>>, <<OidPool[1]>>} ELSE {})

\* the radii of the hit tests: a pixel, the canvas's hit radius, the whole graph
QueryRadii == {1, 27, 1000}

\* Non-empty commit lists with unique oids: short ones with any parent of
\* length at most 1 and any order of timestamps, and longer chains and fans,
\* long enough for the index to subdivide.
InitIndex ==
  /\ \/ \E n \in 1..MaxCommits : \E ps \in [1..n -> ShortParentLists] :
          \E t \in TimeVectors(n) : commits = MakeCommits(n, OidPool, ps, t)
     \/ \E n \in (MaxCommits + 1)..MaxLongCommits :
          \E ps \in {q \in [1..n -> ShortParentLists] :
                        \A i \in 1..n : q[i] \in LongParentLists(i)} :
          \E t \in SimpleTimeVectors(n) : commits = MakeCommits(n, OidPool, ps, t)
  /\ qt = NoTree
  /\ inserted = <<>>
  /\ layout = EmptyLayout
  /\ call = NoCall
  /\ ret = <<>>

\* The canvas rebuilds the index when the layout changes.
CallBuildSpatialIndex ==
  /\ call.op = "computeLayout"
  /\ Len(layout.nodes) > 0
  /\ call' = [op |-> "buildSpatialIndex"]
  /\ qt' = buildSpatialIndex(layout)
  /\ ret' = qt'
  /\ UNCHANGED <<commits, inserted, layout>>

\* A hit test at the exact position of the i-th layout node.
CallQueryNearestAtNode(i, radius) ==
  /\ call.op = "buildSpatialIndex"
  /\ call' = [op |-> "queryNearest", node |-> i, radius |-> radius]
  /\ ret' = queryNearest(qt, layout.nodes[i].x, layout.nodes[i].y, radius)
  /\ UNCHANGED <<commits, qt, inserted, layout>>

NextIndex ==
  \/ CallComputeLayout
  \/ CallBuildSpatialIndex
  \/ \E i \in DOMAIN layout.nodes : \E r \in QueryRadii : CallQueryNearestAtNode(i, r)

SpecIndex == InitIndex /\ [][NextIndex]_vars

\* --------------------------------------------------------------- SpecLanes

\* longest commit list drawn for the lane allocation (histories given newest
\* first)
MaxLaneCommits == 4

\* Parent lists of the i-th of n commits given newest first: identifiers of
\* later (older) commits of the list, and the identifier of no commit.
LaterParentLists(i, n) ==
  UNION {[1..k -> {OidPool[j] : j \in (i + 1)..n} \cup {Dangling}] :
           k \in 0..MaxParents}

\* Histories with unique oids given newest first, every parent older than its
\* child or missing, and the commit lists with a repeated oid of InitLayout.
InitLanes ==
  /\ \/ \E n \in 1..MaxLaneCommits :
          \E ps \in {q \in [1..n -> LaterParentLists(1, n + 1)] :
                        \A i \in 1..n : q[i] \in LaterParentLists(i, n)} :
            commits = MakeCommits(n, OidPool, ps, [i \in 1..n |-> n + 1 - i])
     \/ \E n \in 2..MaxCommits : \E os \in [1..n -> Oids] :
          \E ps \in [1..n -> ShortParentLists] : \E t \in SimpleTimeVectors(n) :
            /\ \E i, j \in 1..n : i # j /\ os[i] = os[j]
            /\ commits = MakeCommits(n, os, ps, t)
  /\ qt = NoTree
  /\ inserted = <<>>
  /\ layout = EmptyLayout
  /\ call = NoCall
  /\ ret = <<>>

\* assignColumns up to its loop: the sorted copy is made and columns,
\* activeLanes and reservations are empty.  ret holds the three while the loop
\* runs, call.k the number of commits processed.
BeginAssignColumns ==
  /\ call = NoCall
  /\ call' = [op |-> "assignColumns.loop", sorted |-> SortedCopy(commits).sorted,
               k |-> 0]
  /\ ret' = [columns |-> EmptyMap, activeLanes |-> <<>>, reservations |-> EmptyMap]
  /\ commits' = SortedCopy(commits).input
  /\ UNCHANGED <<qt, inserted, layout>>

\* One iteration of the loop over the sorted commits.
StepAssignColumns ==
  /\ call.op = "assignColumns.loop"
  /\ call.k < Len(call.sorted)
  /\ call' = [call EXCEPT !.k = @ + 1]
  /\ ret' = AssignCommit(ret, call.sorted[call.k + 1], OidSet(commits))
  /\ UNCHANGED <<commits, qt, inserted, layout>>

\* return columns
ReturnAssignColumns ==
  /\ call.op = "assignColumns.loop"
  /\ call.k = Len(call.sorted)
  /\ call' = [op |-> "assignColumns"]
  /\ ret' = ret.columns
  /\ UNCHANGED <<commits, qt, inserted, layout>>

NextLanes ==
  \/ BeginAssignColumns
  \/ StepAssignColumns
  \/ ReturnAssignColumns
  \/ CallComputeLayout

SpecLanes == InitLanes /\ [][NextLanes]_vars

\* --------------------------------------------------------------- SpecCalls

\* Commit lists with unique oids, parent lists of length at most 1 and any
\* order of timestamps; one call of one of the four graph functions is made on
\* each drawn list.
InitCalls ==
  /\ \E n \in 0..MaxCommits : \E ps \in [1..n -> ShortParentLists] :
       \E t \in TimeVectors(n) : commits = MakeCommits(n, OidPool, ps, t)
  /\ qt = NoTree
  /\ inserted = <<>>
  /\ layout = EmptyLayout
  /\ call = NoCall
  /\ ret = <<>>

NextCalls ==
  \/ CallTopologicalSort
  \/ \E a, d \in Ids : CallIsAncestor(a, d)
  \/ CallAssignColumns
  \/ CallComputeLayout

SpecCalls == InitCalls /\ [][NextCalls]_vars

\* ------------------------------------------------------------ SpecQuadtree

\* The root is the square of side RootSize at the origin; every halving down
\* to depth MaxDepth is exact.
RootSize == 2 ^ (MaxDepth + 1)
RootBounds == [x |-> 0, y |-> 0, width |-> RootSize, height |-> RootSize]

\* Points inserted: on the root's edge, on the inner boundaries of the
\* quadrants of depth 1 and 2, inside a quadrant, and two outside the root.
InsertPoints ==
  ({0, RootSize \div 4, RootSize \div 2, RootSize \div 2 + 1}
     \X {RootSize \div 4, RootSize \div 2, RootSize \div 2 + 1})
  \cup {<<-1, RootSize \div 4>>, <<RootSize \div 4, RootSize + 1>>}

NearestPoints == {1, RootSize \div 2} \X {1, RootSize \div 2, RootSize - 2}
NearestRadii == {0, 1, 2, RootSize \div 2}

Rects ==
  {[x |-> c[1], y |-> c[2], width |-> d[1], height |-> d[2]] :
     c \in {0, RootSize \div 2} \X {0, RootSize \div 2},
     d \in {<<0, 0>>, <<RootSize \div 4, RootSize \div 4>>,
             <<RootSize, RootSize \div 4>>, <<RootSize, RootSize>>}}

InitQuadtree ==
  /\ commits = <<>>
  /\ \E mi \in 1..MaxItems : \E md \in 1..MaxDepth :
       qt = NewQuadtree(RootBounds, mi, md)
  /\ inserted = <<>>
  /\ layout = EmptyLayout
  /\ call = NoCall
  /\ ret = <<>>

\* insert(item, x, y): the item is the number of the insert call.
Insert(x, y) ==
  /\ Len(inserted) < MaxInserts
  /\ call.op \in {"none", "insert"}
  /\ LET item == Len(inserted) + 1
     IN /\ qt' = insert(qt, item, x, y)
        /\ inserted' = Append(inserted, [item |-> item, x |-> x, y |-> y])
  /\ call' = [op |-> "insert"]
  /\ ret' = <<>>
  /\ UNCHANGED <<commits, layout>>

QueryNearest(x, y, radius) ==
  /\ call.op \in {"none", "insert"}
  /\ call' = [op |-> "queryNearest", x |-> x, y |-> y, radius |-> radius]
  /\ ret' = queryNearest(qt, x, y, radius)
  /\ UNCHANGED <<commits, qt, inserted, layout>>

QueryRect(rect) ==
  /\ call.op \in {"none", "insert"}
  /\ call' = [op |-> "queryRect", rect |-> rect]
  /\ ret' = queryRect(qt, rect)
  /\ UNCHANGED <<commits, qt, inserted, layout>>

NextQuadtree ==
  \/ \E p \in InsertPoints : Insert(p[1], p[2])
  \/ \E p \in NearestPoints : \E r \in NearestRadii : QueryNearest(p[1], p[2], r)
  \/ \E rect \in Rects : QueryRect(rect)

SpecQuadtree == InitQuadtree /\ [][NextQuadtree]_vars

\* Every node that was subdivided had an even width and height, so the
\* integer halving of subdivide is the source's halving.
RECURSIVE HalvingExactIn(_)
HalvingExactIn(node) ==
  node.children # <<>> =>
     /\ node.bounds.width % 2 = 0
     /\ node.bounds.height % 2 = 0
     /\ \A k \in DOMAIN node.children : HalvingExactIn(node.children[k])

HalvingExact == HalvingExactIn(qt.root)

\* ------------------------------------------------- graph-theoretic notions

\* The parents of the commits named o that resolve within the list.
ResolvingParents(cs, o) ==
  UNION {Range(cs[i].parents) \cap OidSet(cs) : i \in {j \in DOMAIN cs : cs[j].oid = o}}

RECURSIVE GrowAncestors(_, _, _)
GrowAncestors(cs, S, k) ==
  IF k = 0 THEN S
  ELSE GrowAncestors(cs, S \cup UNION {ResolvingParents(cs, o) : o \in S}, k - 1)

\* The oids reached from o by one or more resolving parent edges.
StrictAncestors(cs, o) == GrowAncestors(cs, ResolvingParents(cs, o), Len(cs))

Acyclic(cs) == \A i \in DOMAIN cs : cs[i].oid \notin StrictAncestors(cs, cs[i].oid)

AllParentsResolve(cs) == \A i \in DOMAIN cs : Range(cs[i].parents) \subseteq OidSet(cs)

HasDanglingParent(cs) == \E i \in DOMAIN cs : ~(Range(cs[i].parents) \subseteq OidSet(cs))

\* How often v occurs in the sequence s.
Count(s, v) == Cardinality({i \in DOMAIN s : s[i] = v})

\* ----------------------------------------------------- claims of SpecSort

\* C1: for a commit list with unique oids (dangling parents, self-loops and
\* parent cycles included) topologicalSort returns a permutation of the input
\* oids: every input oid exactly once and no other identifier.
C1_TopoSortIsPermutation ==
  (call.op = "topologicalSort" /\ UniqueOids(commits)) =>
     /\ \A o \in OidSet(commits) : Count(ret, o) = 1
     /\ Range(ret) \subseteq OidSet(commits)

\* A sorted three-commit list with a dangling parent and a commit on a cycle.
C1_Witness ==
  /\ call.op = "topologicalSort"
  /\ Len(commits) = MaxCommits
  /\ HasDanglingParent(commits)
  /\ ~Acyclic(commits)
  /\ Len(ret) = MaxCommits

\* C7: for an acyclic commit list with unique oids, topologicalSort puts every
\* commit strictly after each of its parents that resolves within the list.
C7_ParentsBeforeChildren ==
  (call.op = "topologicalSort" /\ UniqueOids(commits) /\ Acyclic(commits)) =>
     \A i \in DOMAIN commits : \A p \in ResolvingParents(commits, commits[i].oid) :
        IndexOf(ret, p) < IndexOf(ret, commits[i].oid)

\* A sorted acyclic list whose first commit is a merge of the two others.
C7_Witness ==
  /\ call.op = "topologicalSort"
  /\ Acyclic(commits)
  /\ Len(commits) >= 3
  /\ Cardinality(ResolvingParents(commits, commits[1].oid)) = 2
  /\ ret[Len(ret)] = commits[1].oid

\* C6: when every parent identifier resolves, isAncestor(commits, a, d) is true
\* exactly when a = d or a is reached from d by one or more parent edges; in an
\* acyclic list it is never true in both directions for two distinct commits,
\* and isAncestor(commits, x, x) is true for every x.
C6_IsAncestorIsReachability ==
  (call.op = "isAncestor" /\ UniqueOids(commits) /\ AllParentsResolve(commits)) =>
     /\ ret = (\/ call.ancestor = call.descendant
               \/ call.ancestor \in StrictAncestors(commits, call.descendant))
     /\ isAncestor(commits, call.descendant, call.descendant)
     /\ (Acyclic(commits) /\ ret /\ call.ancestor # call.descendant
         /\ {call.ancestor, call.descendant} \subseteq OidSet(commits))
          => ~isAncestor(commits, call.descendant, call.ancestor)

\* isAncestor answered true for a grandparent that is no direct parent.
C6_Witness ==
  /\ call.op = "isAncestor"
  /\ AllParentsResolve(commits)
  /\ Acyclic(commits)
  /\ ret = TRUE
  /\ call.ancestor # call.descendant
  /\ call.ancestor \notin ResolvingParents(commits, call.descendant)

\* The commit list with every parent identifier that does not resolve within
\* it deleted, the other parents kept in order.
StripDangling(cs) ==
  [i \in DOMAIN cs |->
     [cs[i] EXCEPT !.parents = SelectSeq(@, LAMBDA p : p \in OidSet(cs))]]

\* C15: when ancestor is the oid of no commit of the list and differs from
\* descendant, isAncestor returns false, also when a commit reached from
\* descendant names ancestor as a parent.
C15_MissingAncestorIsFalse ==
  (call.op = "isAncestor" /\ UniqueOids(commits)
   /\ call.ancestor \notin OidSet(commits) /\ call.ancestor # call.descendant) =>
     ret = FALSE

\* C16: for a commit list with unique oids topologicalSort returns the
\* sequence it returns for the list with the non-resolving parents deleted,
\* and every commit without a resolving parent comes before every commit with
\* one.
C16_DanglingParentsIgnoredBySort ==
  (call.op = "topologicalSort" /\ UniqueOids(commits)) =>
     /\ ret = topologicalSort(StripDangling(commits))
     /\ \A i, j \in DOMAIN commits :
          (/\ ResolvingParents(commits, commits[i].oid) = {}
           /\ ResolvingParents(commits, commits[j].oid) # {})
            => IndexOf(ret, commits[i].oid) < IndexOf(ret, commits[j].oid)

\* A sort that moves the last commit, whose parents are all missing, before
\* the first commit, which has a resolving parent and a missing one.
C16_Witness ==
  /\ call.op = "topologicalSort"
  /\ Len(commits) >= 2
  /\ Len(commits[Len(commits)].parents) > 0
  /\ ResolvingParents(commits, commits[Len(commits)].oid) = {}
  /\ ResolvingParents(commits, commits[1].oid) # {}
  /\ Dangling \in Range(commits[1].parents)
  /\ IndexOf(ret, commits[Len(commits)].oid) < IndexOf(ret, commits[1].oid)

\* The commits on a cycle of resolving parent edges (a self-loop included) or
\* with an ancestor on one: those the queue never discharges.
OnCycle(cs, o) == o \in StrictAncestors(cs, o)

Undischarged(cs) ==
  {o \in OidSet(cs) : \E a \in StrictAncestors(cs, o) \cup {o} : OnCycle(cs, a)}

\* C17: when the parent relation has a cycle or self-loop, topologicalSort
\* returns the commits free of cycles first and then every commit on a cycle
\* or depending on one, these in their input-list order.
C17_CycleRemainderInInputOrder ==
  (call.op = "topologicalSort" /\ UniqueOids(commits) /\ ~Acyclic(commits)) =>
     LET stuck == Undischarged(commits)
         n == Len(ret)
         m == Cardinality(stuck)
     IN /\ n = Len(commits)
        /\ \A k \in 1..(n - m) : ret[k] \notin stuck
        /\ SubSeq(ret, n - m + 1, n)
             = SelectSeq([i \in DOMAIN commits |-> commits[i].oid],
                         LAMBDA o : o \in stuck)

\* A sort of three commits: the first two form a cycle, the third is free and
\* is returned before them.
C17_Witness ==
  /\ call.op = "topologicalSort"
  /\ Len(commits) = 3
  /\ Undischarged(commits) = {commits[1].oid, commits[2].oid}
  /\ commits[1].oid \in Range(commits[2].parents)
  /\ commits[2].oid \in Range(commits[1].parents)
  /\ ret = <<commits[3].oid, commits[1].oid, commits[2].oid>>

\* ------------------------------------------------- claims of SpecAncestor

\* C30: isAncestor terminates with a boolean on every commit list, with
\* cycles, self-loops and dangling parents or not: every call that entered
\* the loop returns true or false.
C30_IsAncestorTerminates ==
  (call.op = "isAncestor.loop")
    ~> (call.op = "isAncestor.return" /\ ret.value \in BOOLEAN)

\* A call whose descendant lies on a cycle and has a missing parent returned
\* false for a commit of the list.
C30_Witness ==
  /\ call.op = "isAncestor.return"
  /\ ret.value = FALSE
  /\ call.descendant \in OidSet(commits)
  /\ OnCycle(commits, call.descendant)
  /\ Cardinality(StrictAncestors(commits, call.descendant)) >= 2
  /\ \E i \in DOMAIN commits :
        commits[i].oid = call.descendant /\ Dangling \in Range(commits[i].parents)
  /\ call.ancestor \in OidSet(commits)

\* --------------------------------------------------- claims of SpecLayout

\* The position in cs of the commit named o (oids unique).
CommitAt(cs, o) == CHOOSE i \in DOMAIN cs : cs[i].oid = o

\* One root, every other commit with one resolving parent of a smaller
\* timestamp, and no commit the parent of two: a single chain, in any order.
IsLinearChain(cs) ==
  /\ Len(cs) >= 1
  /\ UniqueOids(cs)
  /\ Cardinality({i \in DOMAIN cs : Len(cs[i].parents) = 0}) = 1
  /\ \A i \in DOMAIN cs : Len(cs[i].parents) # 0 =>
        /\ Len(cs[i].parents) = 1
        /\ cs[i].parents[1] \in OidSet(cs)
        /\ cs[CommitAt(cs, cs[i].parents[1])].timestamp < cs[i].timestamp
  /\ \A i, j \in DOMAIN cs :
        (Len(cs[i].parents) = 1 /\ cs[i].parents = cs[j].parents) => i = j

\* Three commits: a root at position r, and two children with the root as only
\* parent and a greater timestamp.
IsForkAt(cs, r) ==
  /\ Len(cs) = 3
  /\ UniqueOids(cs)
  /\ r \in DOMAIN cs
  /\ Len(cs[r].parents) = 0
  /\ \A i \in DOMAIN cs \ {r} :
        cs[i].parents = <<cs[r].oid>> /\ cs[i].timestamp > cs[r].timestamp

\* C2: computeLayout returns exactly one layout node per input commit, for
\* lists with unique oids or not and parents resolving or not; a commit whose
\* parents are all missing is laid out as well.
C2_OneNodePerCommit ==
  call.op = "computeLayout" =>
     /\ Len(ret.nodes) = Len(commits)
     /\ \A o \in OidSet(commits) :
          Cardinality({i \in DOMAIN ret.nodes : ret.nodes[i].oid = o})
            = Cardinality({i \in DOMAIN commits : commits[i].oid = o})

\* A laid-out list with a repeated oid and a commit whose only parent is missing.
C2_Witness ==
  /\ call.op = "computeLayout"
  /\ Len(commits) = MaxCommits
  /\ ~UniqueOids(commits)
  /\ \E i \in DOMAIN commits :
        Len(commits[i].parents) > 0 /\ Range(commits[i].parents) \cap OidSet(commits) = {}
  /\ Len(ret.nodes) = MaxCommits

\* C3: computeLayout on the empty list returns no nodes, no edges, and width
\* and height both at the floor of non-empty layouts (200), not zero.
C3_EmptyLayoutFloored ==
  (call.op = "computeLayout" /\ Len(commits) = 0) =>
     /\ ret.nodes = <<>>
     /\ ret.edges = <<>>
     /\ ret.width = minSize
     /\ ret.height = minSize

\* C8: a linear chain whose timestamps grow from root to tip is assigned lane
\* 0 throughout, whatever the order of the commits in the input list.
C8_LinearChainOneLane ==
  (call.op = "assignColumns" /\ IsLinearChain(commits)) =>
     \A i \in DOMAIN commits :
        MapHas(ret, commits[i].oid) /\ MapGet(ret, commits[i].oid) = 0

\* A chain of three given with its root in the middle and its tip last.
C8_Witness ==
  /\ call.op = "assignColumns"
  /\ IsLinearChain(commits)
  /\ Len(commits) = 3
  /\ Len(commits[2].parents) = 0
  /\ commits[1].parents = <<commits[2].oid>>
  /\ MapGet(ret, commits[3].oid) = 0

\* C9: for a root and two children of it with greater timestamps, all three
\* get a lane, exactly one child gets the root's lane, the other child a
\* different one, and exactly 2 distinct lanes are used.
C9_ForkUsesTwoLanes ==
  \A r \in DOMAIN commits :
    (call.op = "assignColumns" /\ IsForkAt(commits, r)) =>
       /\ \A i \in DOMAIN commits : MapHas(ret, commits[i].oid)
       /\ Cardinality({i \in DOMAIN commits \ {r} :
                         MapGet(ret, commits[i].oid) = MapGet(ret, commits[r].oid)}) = 1
       /\ Cardinality({MapGet(ret, commits[i].oid) : i \in DOMAIN commits}) = 2

\* A fork whose children carry the same timestamp, the root given first.
C9_Witness ==
  /\ call.op = "assignColumns"
  /\ IsForkAt(commits, 1)
  /\ commits[2].timestamp = commits[3].timestamp
  /\ MapGet(ret, commits[1].oid) = MapGet(ret, commits[2].oid)
  /\ MapGet(ret, commits[3].oid) # MapGet(ret, commits[1].oid)

\* The parent references that resolve: the pairs of a commit's position and a
\* position of its parent list holding an oid of the list.
ResolvingRefs(cs) ==
  UNION {{<<i, j>> : j \in {k \in DOMAIN cs[i].parents :
                                  cs[i].parents[k] \in OidSet(cs)}} :
         i \in DOMAIN cs}

\* C11: for a commit list with unique oids, computeLayout emits one edge
\* (from = child, to = parent) per entry of a parent list that resolves within
\* the list, a repeated entry counting each time, and no edge for an entry that
\* does not resolve; edges.length is the number of resolving references.
C11_EdgesAreResolvingParents ==
  (call.op = "computeLayout" /\ UniqueOids(commits)) =>
     /\ \A i \in DOMAIN commits : \A p \in Ids :
          Cardinality({k \in DOMAIN ret.edges :
                         ret.edges[k].from = commits[i].oid /\ ret.edges[k].to = p})
            = IF p \in OidSet(commits)
              THEN Cardinality({j \in DOMAIN commits[i].parents :
                                  commits[i].parents[j] = p})
              ELSE 0
     /\ \A k \in DOMAIN ret.edges : ret.edges[k].from \in OidSet(commits)
     /\ Len(ret.edges) = Cardinality(ResolvingRefs(commits))

\* A layout of a list in which one commit names the same resolving parent
\* twice and another names a missing parent before a resolving one.
C11_Witness ==
  /\ call.op = "computeLayout"
  /\ UniqueOids(commits)
  /\ \E i \in DOMAIN commits :
        /\ Len(commits[i].parents) = 2
        /\ commits[i].parents[1] = commits[i].parents[2]
        /\ commits[i].parents[1] \in OidSet(commits)
  /\ \E i \in DOMAIN commits :
        /\ Len(commits[i].parents) = 2
        /\ commits[i].parents[1] \notin OidSet(commits)
        /\ commits[i].parents[2] \in OidSet(commits)
  /\ Len(ret.edges) >= 3

\* The largest lane of a layout node.
LargestCol(nodes) ==
  CHOOSE m \in {nodes[i].col : i \in DOMAIN nodes} :
    \A i \in DOMAIN nodes : nodes[i].col <= m

\* C12: for a non-empty list computeLayout returns
\* width = max(200, 2*60 + maxColumn*80) and
\* height = max(200, 2*60 + (nodeCount-1)*70), maxColumn the largest lane of a
\* node; both are at least 200 and every node has 60 <= x <= width - 60 and
\* 60 <= y <= height - 60 (with the floor applied the margin is only wider).
C12_BoundingBox ==
  (call.op = "computeLayout" /\ Len(commits) > 0) =>
     /\ ret.width = Max(200, 2 * 60 + LargestCol(ret.nodes) * 80)
     /\ ret.height = Max(200, 2 * 60 + (Len(commits) - 1) * 70)
     /\ ret.width >= 200
     /\ ret.height >= 200
     /\ \A i \in DOMAIN ret.nodes :
          /\ 60 <= ret.nodes[i].x /\ ret.nodes[i].x <= ret.width - 60
          /\ 60 <= ret.nodes[i].y /\ ret.nodes[i].y <= ret.height - 60

\* A layout wider and higher than the floor, with a node on its right margin
\* and a node on its bottom margin.
C12_Witness ==
  /\ call.op = "computeLayout"
  /\ ret.width > 200
  /\ ret.height > 200
  /\ \E i \in DOMAIN ret.nodes : ret.nodes[i].x = ret.width - 60
  /\ \E i \in DOMAIN ret.nodes : ret.nodes[i].y = ret.height - 60

\* The 0-based row of the commit at position k: the number of commits with a
\* greater timestamp, and of commits before it in the list with the same one.
RowOf(cs, k) ==
  Cardinality({j \in DOMAIN cs : cs[j].timestamp > cs[k].timestamp})
  + Cardinality({j \in 1..(k - 1) : cs[j].timestamp = cs[k].timestamp})

\* C24: in the layout of a non-empty list the nodes are in timestamp-descending
\* order, ties in input order; the node at index i has row = i,
\* y = 60 + 70*i, col = the lane assignColumns gives its oid, x = 60 + 80*col
\* and color = palette[col mod 8]; rows are 0..n-1 and a commit with a
\* strictly greater timestamp has a strictly smaller y.
C24_NodesInTimestampOrder ==
  (call.op = "computeLayout" /\ Len(commits) > 0) =>
     /\ Len(ret.nodes) = Len(commits)
     /\ \A k \in DOMAIN commits :
          LET i == RowOf(commits, k)
              node == ret.nodes[i + 1]
          IN /\ node.oid = commits[k].oid
             /\ node.parents = commits[k].parents
             /\ node.row = i
             /\ node.y = 60 + 70 * i
             /\ node.col = MapGet(assignColumns(commits), commits[k].oid)
             /\ node.x = 60 + 80 * node.col
             /\ node.color = branchColors[(node.col % 8) + 1]
     /\ {ret.nodes[i].row : i \in DOMAIN ret.nodes} = 0..(Len(commits) - 1)
     /\ \A j, k \in DOMAIN commits :
          commits[j].timestamp > commits[k].timestamp =>
            ret.nodes[RowOf(commits, j) + 1].y < ret.nodes[RowOf(commits, k) + 1].y

\* A layout of three commits: the first two share the smaller timestamp and
\* keep their order below the third, and a node lies outside lane 0.
C24_Witness ==
  /\ call.op = "computeLayout"
  /\ Len(commits) = 3
  /\ commits[1].timestamp = commits[2].timestamp
  /\ commits[3].timestamp > commits[1].timestamp
  /\ ret.nodes[1].oid = commits[3].oid
  /\ ret.nodes[2].oid = commits[1].oid
  /\ ret.nodes[3].oid = commits[2].oid
  /\ commits[1].oid # commits[2].oid
  /\ \E i \in DOMAIN ret.nodes : ret.nodes[i].col > 0

\* The layout node of the commit named o (oids unique).
NodeOf(nodes, o) == nodes[CHOOSE i \in DOMAIN nodes : nodes[i].oid = o]

\* C25: every edge has 2 control points when child and parent are in the same
\* column and 4 otherwise; the first is the child's (x, y), the last the
\* parent's; of 4, the second is (child.x, midY) and the third
\* (parent.x, midY), midY = (child.y + parent.y) / 2 (lists with unique oids).
C25_EdgeControlPoints ==
  (call.op = "computeLayout" /\ UniqueOids(commits)) =>
     \A k \in DOMAIN ret.edges :
        LET e == ret.edges[k]
            child == NodeOf(ret.nodes, e.from)
            parent == NodeOf(ret.nodes, e.to)
            n == Len(e.points)
        IN /\ n = IF child.col = parent.col THEN 2 ELSE 4
           /\ e.points[1] = [x |-> child.x, y |-> child.y]
           /\ e.points[n] = [x |-> parent.x, y |-> parent.y]
           /\ n = 4 =>
                /\ e.points[2].x = child.x
                /\ e.points[3].x = parent.x
                /\ e.points[2].y = e.points[3].y
                /\ 2 * e.points[2].y = child.y + parent.y

\* A layout with a straight edge and a bent edge to a parent two rows down.
C25_Witness ==
  /\ call.op = "computeLayout"
  /\ UniqueOids(commits)
  /\ \E k \in DOMAIN ret.edges : Len(ret.edges[k].points) = 2
  /\ \E k \in DOMAIN ret.edges :
        /\ Len(ret.edges[k].points) = 4
        /\ ret.edges[k].points[4].y - ret.edges[k].points[1].y = 2 * 70

\* ---------------------------------------------------- claims of SpecLanes

\* C14: for a commit list with unique oids assignColumns returns the
\* oid-to-lane mapping it returns for the list with the non-resolving parents
\* deleted.
C14_DanglingParentsIgnoredByLanes ==
  (call.op = "assignColumns" /\ UniqueOids(commits)) =>
     ret.val = assignColumns(StripDangling(commits)).val

\* C20: when the loop of assignColumns processes a commit c whose parent at
\* index 0 resolves within the list and has neither a lane nor a reservation
\* at that moment, the parent is reserved the lane of c, and in the mapping
\* returned the parent has the lane of c (lists with unique oids).
C20_FirstParentInheritsLane ==
  [][(/\ call.op = "assignColumns.loop"
      /\ call'.op = "assignColumns.loop"
      /\ call'.k = call.k + 1
      /\ UniqueOids(commits)) =>
       LET c == call.sorted[call'.k]
           oidSet == OidSet(commits)
       IN (/\ Len(c.parents) >= 1
           /\ c.parents[1] \in oidSet
           /\ c.parents[1] # c.oid
           /\ ~MapHas(ret.columns, c.parents[1])
           /\ ~MapHas(ret.reservations, c.parents[1])) =>
            LET p == c.parents[1]
                final == AssignLoop(ret', call.sorted, call'.k + 1, oidSet).columns
            IN /\ MapHas(ret'.reservations, p)
               /\ MapGet(ret'.reservations, p) = MapGet(ret'.columns, c.oid)
               /\ MapGet(final, p) = MapGet(final, c.oid)]_vars

\* The loop has just processed a commit in a lane other than 0 while lane 0
\* was free, and reserved that lane for its first parent.
C20_Witness ==
  /\ call.op = "assignColumns.loop"
  /\ call.k >= 1
  /\ UniqueOids(commits)
  /\ LET c == call.sorted[call.k]
     IN /\ Len(c.parents) >= 1
        /\ MapGet(ret.columns, c.oid) > 0
        /\ MapHas(ret.reservations, c.parents[1])
        /\ MapGet(ret.reservations, c.parents[1]) = MapGet(ret.columns, c.oid)
        /\ ret.activeLanes[1] = Null

\* A step of the loop of assignColumns: the commit processed is
\* call.sorted[call'.k].
IsLoopStep ==
  /\ call.op = "assignColumns.loop"
  /\ call'.op = "assignColumns.loop"
  /\ call'.k = call.k + 1

\* C21: a parent at index 1 or higher of a commit's parent list that receives
\* a reservation while that commit is processed is reserved a lane other than
\* the lane of the commit (lists with unique oids).
C21_OtherParentsGetSideLane ==
  [][(IsLoopStep /\ UniqueOids(commits)) =>
       LET c == call.sorted[call'.k]
       IN \A i \in DOMAIN c.parents :
            (/\ i >= 2
             /\ \A j \in 1..(i - 1) : c.parents[j] # c.parents[i]
             /\ ~MapHas(ret.reservations, c.parents[i])
             /\ MapHas(ret'.reservations, c.parents[i])) =>
              MapGet(ret'.reservations, c.parents[i]) # MapGet(ret'.columns, c.oid)]_vars

\* The identifiers held by the slots of activeLanes that are not free.
LaneHolders(st) == {st.activeLanes[i] : i \in DOMAIN st.activeLanes} \ {Null}

\* Lane slot i (0-based) holds p exactly when reservations sends p to i.
LanesAgree(st) ==
  /\ \A i \in DOMAIN st.activeLanes :
        st.activeLanes[i] # Null =>
          /\ MapHas(st.reservations, st.activeLanes[i])
          /\ MapGet(st.reservations, st.activeLanes[i]) = i - 1
  /\ \A p \in Range(st.reservations.keys) :
        /\ MapGet(st.reservations, p) + 1 \in DOMAIN st.activeLanes
        /\ st.activeLanes[MapGet(st.reservations, p) + 1] = p
  /\ \A i, j \in DOMAIN st.reservations.keys :
        st.reservations.keys[i] = st.reservations.keys[j] => i = j

\* C27: after every iteration of the loop of assignColumns the lane array and
\* the reservation map agree (slot i holds p exactly when p is reserved lane
\* i, so no lane is reserved twice and no commit holds two reservations), and
\* the lane picked for a commit without a reservation is not a lane reserved
\* for another commit at that moment.
C27_LanesAndReservationsAgree ==
  [][/\ call'.op = "assignColumns.loop" => LanesAgree(ret')
     /\ IsLoopStep =>
          LET c == call.sorted[call'.k]
          IN ~MapHas(ret.reservations, c.oid) =>
               \A p \in Range(ret.reservations.keys) :
                  MapGet(ret.reservations, p) # MapGet(ret'.columns, c.oid)]_vars

\* The loop has just given an unreserved commit a lane beside two lanes that
\* are still reserved.
C27_Witness ==
  /\ call.op = "assignColumns.loop"
  /\ call.k >= 2
  /\ Len(ret.reservations.keys) >= 2
  /\ LET c == call.sorted[call.k]
     IN /\ MapGet(ret.columns, c.oid) = 2
        /\ ret.activeLanes[1] # Null
        /\ ret.activeLanes[2] # Null

\* C28: for a commit list with unique oids assignColumns gives every commit
\* one lane, an integer >= 0, and the lanes in use are contiguous from 0:
\* every index up to the largest lane is the lane of a commit, so the largest
\* lane is below the number of commits.
C28_LanesContiguousFromZero ==
  (call.op = "assignColumns" /\ UniqueOids(commits)) =>
     LET used == {MapGet(ret, commits[i].oid) : i \in DOMAIN commits}
     IN /\ Range(ret.keys) = OidSet(commits)
        /\ Len(ret.keys) = Len(commits)
        /\ \A l \in used : l \in Nat
        /\ \A l \in used : \A m \in 0..l : m \in used
        /\ \A l \in used : l < Len(commits)

\* A mapping that uses the three lanes 0, 1, 2 for four commits, one of them
\* with a missing parent.
C28_Witness ==
  /\ call.op = "assignColumns"
  /\ UniqueOids(commits)
  /\ Len(commits) = 4
  /\ HasDanglingParent(commits)
  /\ {MapGet(ret, commits[i].oid) : i \in DOMAIN commits} = {0, 1, 2}

\* ---------------------------------------------------- claims of SpecCalls

\* C18: topologicalSort, assignColumns, computeLayout and isAncestor leave the
\* commit list they are given as it was: the same commits in the same order,
\* each with the same parent list.
C18_InputsNotModified ==
  [][call'.op \in {"topologicalSort", "assignColumns", "computeLayout", "isAncestor"}
       => commits' = commits]_vars

\* computeLayout has returned the nodes of a list that was not in timestamp
\* order in another order than the list's, and the list is still out of order.
C18_Witness ==
  /\ call.op = "computeLayout"
  /\ Len(commits) = MaxCommits
  /\ commits # SortByTimeDesc(commits)
  /\ ret.nodes[1].oid # commits[1].oid

\* ---------------------------------------------------- claims of SpecIndex

\* C5: for a non-empty commit list with unique oids, the index built from its
\* layout answers queryNearest at the exact position of any layout node, with
\* any radius > 0, with the node of that oid.
C5_IndexFindsEveryNode ==
  (call.op = "queryNearest" /\ UniqueOids(commits)) =>
     /\ ret # None
     /\ ret[1].oid = layout.nodes[call.node].oid

\* A one-pixel hit test on a node outside lane 0 of an index that subdivided.
C5_Witness ==
  /\ call.op = "queryNearest"
  /\ qt.root.children # <<>>
  /\ call.radius = 1
  /\ layout.nodes[call.node].col > 0
  /\ ret = Some(layout.nodes[call.node])

\* ------------------------------------------------- claims of SpecQuadtree

\* The inserted entries that lie inside the root bounds.
InBoundsEntries ==
  {inserted[i] : i \in {j \in DOMAIN inserted :
                          inBounds(RootBounds, inserted[j].x, inserted[j].y)}}

SqDist(e, x, y) == (e.x - x) * (e.x - x) + (e.y - y) * (e.y - y)

\* The in-bounds entries strictly closer to (x, y) than radius.
Within(x, y, radius) ==
  {e \in InBoundsEntries : SqDist(e, x, y) < radius * radius}

\* C4: queryNearest returns an inserted in-bounds item of minimal squared
\* distance among those strictly below radius squared, and null exactly when
\* there is none; the pruning by the search square hides no such item.
C4_NearestIsClosestWithinRadius ==
  call.op = "queryNearest" =>
     LET near == Within(call.x, call.y, call.radius)
     IN IF near = {} THEN ret = None
        ELSE /\ ret # None
             /\ \E e \in near :
                  /\ e.item = ret[1]
                  /\ \A f \in near : SqDist(e, call.x, call.y) <= SqDist(f, call.x, call.y)

\* A query on a subdivided tree that returns an item while another entry lies
\* at distance exactly radius and a third point was inserted outside the root.
C4_Witness ==
  /\ call.op = "queryNearest"
  /\ ret # None
  /\ qt.root.children # <<>>
  /\ \E e \in InBoundsEntries :
        SqDist(e, call.x, call.y) = call.radius * call.radius
  /\ Cardinality(InBoundsEntries) < Len(inserted)

\* A query that returns null although an entry lies at distance exactly radius.
C4_WitnessNull ==
  /\ call.op = "queryNearest"
  /\ ret = None
  /\ \E e \in InBoundsEntries :
        SqDist(e, call.x, call.y) = call.radius * call.radius

\* The nodes of the tree under node, itself at depth `depth`: for each its
\* depth, whether it is a leaf, and its own entries.
RECURSIVE NodesAt(_, _)
NodesAt(node, depth) ==
  {[depth |-> depth, leaf |-> node.children = <<>>, items |-> node.items,
    bounds |-> node.bounds]}
  \cup UNION {NodesAt(node.children[k], depth + 1) : k \in DOMAIN node.children}

\* Every stored entry with the bounds of the node that stores it, one element
\* per stored copy.
RECURSIVE StoredIn(_)
RECURSIVE StoredInChildren(_, _)
StoredIn(node) ==
  [i \in 1..Len(node.items) |-> [entry |-> node.items[i], bounds |-> node.bounds]]
  \o StoredInChildren(node.children, 1)
StoredInChildren(children, k) ==
  IF k > Len(children) THEN <<>>
  ELSE StoredIn(children[k]) \o StoredInChildren(children, k + 1)

\* C22 as claimed: after every insert no leaf below maxDepth holds more than
\* maxItems entries.
C22_LeavesWithinMaxItems ==
  \A n \in NodesAt(qt.root, 0) :
     (n.leaf /\ n.depth < qt.maxDepth) => Len(n.items) <= qt.maxItems

\* C22 as amended: after every insert a leaf at depth d below maxDepth holds
\* at most maxItems + d entries (the leaf pushed over the limit is subdivided
\* once; the children filled by the redistribution are not looked at again
\* until an insert reaches them), so the root as a leaf holds at most maxItems.
C22_LeavesWithinMaxItemsPlusDepth ==
  \A n \in NodesAt(qt.root, 0) :
     (n.leaf /\ n.depth < qt.maxDepth) => Len(n.items) <= qt.maxItems + n.depth

\* A leaf at depth 1, below maxDepth, holds maxItems + 1 entries after a
\* subdivision.
C22_Witness ==
  /\ call.op = "insert"
  /\ qt.maxDepth > 1
  /\ \E n \in NodesAt(qt.root, 0) :
        n.leaf /\ n.depth = 1 /\ Len(n.items) = qt.maxItems + 1

\* C23: with exact halving, after any sequence of inserts every node that has
\* children holds no entry of its own: every point inside a node lies inside
\* a child.
C23_OverflowBucketUnused ==
  HalvingExact =>
    \A n \in NodesAt(qt.root, 0) : ~n.leaf => n.items = <<>>

\* A tree subdivided twice that took an entry on the boundary shared by the
\* four quadrants of the root.
C23_Witness ==
  /\ call.op = "insert"
  /\ \E n \in NodesAt(qt.root, 0) : n.depth = 2
  /\ \E e \in InBoundsEntries : e.x = RootSize \div 2 /\ e.y = RootSize \div 2
  /\ qt.root.items = <<>>

\* C26: after any sequence of inserts every entry with its point inside the
\* root bounds is stored in exactly one node, whose closed bounds contain the
\* point, and nothing else is stored: a subdivision moves the entries of the
\* leaf without dropping or copying any.
C26_EntriesStoredExactlyOnce ==
  LET stored == StoredIn(qt.root)
  IN /\ \A e \in InBoundsEntries :
          Cardinality({i \in DOMAIN stored : stored[i].entry = e}) = 1
     /\ \A i \in DOMAIN stored :
          /\ stored[i].entry \in InBoundsEntries
          /\ inBounds(stored[i].bounds, stored[i].entry.x, stored[i].entry.y)
     /\ Len(stored) = Cardinality(InBoundsEntries)

\* Three entries inside the root, stored in leaves of a tree subdivided twice.
C26_Witness ==
  /\ call.op = "insert"
  /\ Cardinality(InBoundsEntries) = MaxInserts
  /\ \E n \in NodesAt(qt.root, 0) : n.depth = 2 /\ n.items # <<>>
  /\ Len(StoredIn(qt.root)) = MaxInserts

\* C29: after any sequence of inserts no node lies deeper than maxDepth below
\* the root: a leaf at depth maxDepth is not subdivided and takes every
\* further entry that falls inside it.
C29_DepthWithinMaxDepth ==
  \A n \in NodesAt(qt.root, 0) :
     /\ n.depth <= qt.maxDepth
     /\ n.depth = qt.maxDepth => n.leaf

\* A leaf at depth maxDepth holds more than maxItems entries.
C29_Witness ==
  /\ call.op = "insert"
  /\ \E n \in NodesAt(qt.root, 0) :
        n.leaf /\ n.depth = qt.maxDepth /\ Len(n.items) > qt.maxItems

\* The items of the insert calls whose point lies outside the root bounds.
OutOfBoundsItems(ins) ==
  {ins[i].item : i \in {j \in DOMAIN ins :
                           ~inBounds(qt.root.bounds, ins[j].x, ins[j].y)}}

\* C13: insert of a point outside the root bounds leaves the whole tree as it
\* was (no entry added, no node subdivided), and no later queryNearest or
\* queryRect returns that item.
C13_OutOfBoundsInsertIsNoOp ==
  [][/\ (/\ call'.op = "insert"
          /\ Len(inserted') = Len(inserted) + 1
          /\ inserted'[Len(inserted')].item \in OutOfBoundsItems(inserted'))
         => qt' = qt
     /\ call'.op = "queryNearest"
         => (ret' = None \/ ret'[1] \notin OutOfBoundsItems(inserted'))
     /\ call'.op = "queryRect"
         => Range(ret') \cap OutOfBoundsItems(inserted') = {}]_vars

\* A rectangle query over the whole root of a subdivided tree returns every
\* item but the one that was inserted last, outside the root.
C13_Witness ==
  /\ call.op = "queryRect"
  /\ call.rect = RootBounds
  /\ qt.root.children # <<>>
  /\ Len(inserted) = MaxInserts
  /\ OutOfBoundsItems(inserted) = {MaxInserts}
  /\ Range(ret) = 1..(MaxInserts - 1)

\* The in-bounds entries whose point lies in the closed rectangle rect.
InRect(rect) ==
  {e \in InBoundsEntries : /\ rect.x <= e.x /\ e.x <= rect.x + rect.width
                           /\ rect.y <= e.y /\ e.y <= rect.y + rect.height}

\* C10: queryRect with non-negative width and height returns exactly the
\* inserted in-bounds items whose point lies in the closed rectangle, each
\* inserted entry once and nothing else.
C10_RectReturnsExactlyItemsInside ==
  call.op = "queryRect" =>
     /\ Range(ret) = {e.item : e \in InRect(call.rect)}
     /\ Len(ret) = Cardinality(InRect(call.rect))

\* A rectangle query on a subdivided tree that returns some but not all of
\* the in-bounds entries, one of them on the rectangle's edge.
C10_Witness ==
  /\ call.op = "queryRect"
  /\ qt.root.children # <<>>
  /\ Len(ret) >= 1
  /\ Len(ret) < Cardinality(InBoundsEntries)
  /\ \E e \in InRect(call.rect) : e.x = call.rect.x + call.rect.width

====
